---- MODULE Spec2Model ----
(***************************************************************************)
(* Model of the `extensible` package: the typed option dictionary          *)
(* (options.py) and the extension registry (extensible.py).                *)
(*                                                                         *)
(* Python strings on which the code does character work (option names,     *)
(* mapping keys, string option values) are sequences of one-character      *)
(* strings, so that str.lower(), sorted(), ", ".join(), int() and float()  *)
(* are computed rather than assumed.  Extension-point identifiers,         *)
(* extension names, class names and module locators are only compared for  *)
(* equality by the code and are plain strings.                             *)
(*                                                                         *)
(* Python floats are modelled as a whole number of tenths                  *)
(* (FloatV(15) is 1.5); the value pools only hold strings and floats that  *)
(* this representation covers exactly.                                     *)
(***************************************************************************)
EXTENDS Integers, Sequences, FiniteSets, TLC

VARIABLES
    \* OptionDict: the constructor's arguments, the object's two fields, the
    \* exception the constructor raised, the outcome of the last method call
    mapping, options, pc, _dict, _options, raised, ret,
    \* coercion functions: the argument and the outcome of the last call
    value, retval,
    \* ExtensionRegistry: the class-level dictionary of catalogs, the
    \* interpreter's table of imported modules, the outcome of the last call
    _global_registries, sys_modules, last,
    \* history: the class most recently passed to register() per catalog and
    \* name, and the class the first lazy resolution of a name returned
    registered, resolved

vars == <<mapping, options, pc, _dict, _options, raised, ret, value, retval,
          _global_registries, sys_modules, last, registered, resolved>>

optVars == <<mapping, options, pc, _dict, _options, raised, ret>>
coerceVars == <<value, retval>>
regVars == <<_global_registries, sys_modules, last, registered, resolved>>

----------------------------------------------------------------------------
(* Characters and strings *)

UpperChars == <<"A","B","C","D","E","F","G","H","I","J","K","L","M",
                "N","O","P","Q","R","S","T","U","V","W","X","Y","Z">>
LowerChars == <<"a","b","c","d","e","f","g","h","i","j","k","l","m",
                "n","o","p","q","r","s","t","u","v","w","x","y","z">>
Digits == <<"0","1","2","3","4","5","6","7","8","9">>

\* The characters of the model in code point order (what sorted() compares).
CodePoints == <<" ", "+", ",", "-", ".">> \o Digits \o UpperChars \o <<"_">> \o LowerChars

Chars == {CodePoints[i] : i \in 1..Len(CodePoints)}

OrdTable == [c \in Chars |-> CHOOSE i \in 1..Len(CodePoints) : CodePoints[i] = c]

\* ord(c), up to the gaps between the code points of the model's characters
Ord(c) == OrdTable[c]

LowerTable ==
    [c \in Chars |->
        IF \E i \in 1..Len(UpperChars) : UpperChars[i] = c
        THEN LowerChars[CHOOSE i \in 1..Len(UpperChars) : UpperChars[i] = c]
        ELSE c]

LowerChar(c) == LowerTable[c]

\* str.lower()
Lower(s) == [i \in 1..Len(s) |-> LowerChar(s[i])]

\* s < t for Python strings: lexicographic on code points
RECURSIVE StrLess(_, _)
StrLess(s, t) ==
    IF s = <<>> THEN t # <<>>
    ELSE IF t = <<>> THEN FALSE
    ELSE IF s[1] = t[1] THEN StrLess(Tail(s), Tail(t))
    ELSE Ord(s[1]) < Ord(t[1])

\* sorted(S) for a set of strings
RECURSIVE Sorted(_)
Sorted(S) ==
    IF S = {} THEN <<>>
    ELSE LET m == CHOOSE x \in S : \A y \in S \ {x} : StrLess(x, y)
         IN <<m>> \o Sorted(S \ {m})

\* sep.join(parts)
RECURSIVE Join(_, _)
Join(sep, parts) ==
    IF parts = <<>> THEN <<>>
    ELSE IF Len(parts) = 1 THEN parts[1]
    ELSE parts[1] \o sep \o Join(sep, Tail(parts))

IsDigit(c) == \E i \in 1..Len(Digits) : Digits[i] = c
DigitVal(c) == (CHOOSE i \in 1..Len(Digits) : Digits[i] = c) - 1
AllDigits(s) == \A i \in 1..Len(s) : IsDigit(s[i])

RECURSIVE DigitsVal(_)
DigitsVal(s) ==
    IF s = <<>> THEN 0 ELSE 10 * DigitsVal(SubSeq(s, 1, Len(s) - 1)) + DigitVal(s[Len(s)])

RECURSIVE NatStr(_)
NatStr(n) == IF n < 10 THEN <<Digits[n + 1]>> ELSE NatStr(n \div 10) \o <<Digits[(n % 10) + 1]>>

\* str(n) for an int
IntStr(n) == IF n < 0 THEN <<"-">> \o NatStr(-n) ELSE NatStr(n)

HasSign(s) == s # <<>> /\ s[1] \in {"+", "-"}
Unsigned(s) == IF HasSign(s) THEN Tail(s) ELSE s
SignOf(s) == IF s # <<>> /\ s[1] = "-" THEN -1 ELSE 1

----------------------------------------------------------------------------
(* Option values and exceptions *)

None == [t |-> "none"]
BoolV(b) == [t |-> "bool", v |-> b]
IntV(n) == [t |-> "int", v |-> n]
FloatV(tenths) == [t |-> "float", v |-> tenths]
StrV(s) == [t |-> "str", v |-> s]

\* The outcome of a call: the value returned, or the exception raised.
Return(v) == [exc |-> "none", val |-> v]
Raise(e) == [exc |-> e, val |-> None]

\* class OptionType(Enum)
OptionType == {"str", "int", "bool", "float"}

----------------------------------------------------------------------------
(* Coercion functions *)

TRUE_VALUES == {<<"1">>, <<"t","r","u","e">>, <<"y","e","s">>, <<"o","n">>}
FALSE_VALUES == {<<"0">>, <<"f","a","l","s","e">>, <<"n","o">>, <<"o","f","f">>}

value_to_bool_Lowercasing(v) ==
    IF v.t = "none" THEN Return(None)
    ELSE IF v.t = "bool" THEN Return(v)
    ELSE IF v.t \in {"int", "float"} THEN Return(BoolV(v.v # 0))
    ELSE IF Lower(v.v) \in TRUE_VALUES THEN Return(BoolV(TRUE))
    ELSE IF Lower(v.v) \in FALSE_VALUES THEN Return(BoolV(FALSE))
    ELSE Raise("ValueError")

value_to_bool(v) ==
    IF v.t = "none" THEN Return(None)
    ELSE IF v.t = "bool" THEN Return(v)
    ELSE IF v.t \in {"int", "float"} THEN Return(BoolV(v.v # 0))
    ELSE IF v.t = "str" THEN
        IF v.v \in TRUE_VALUES THEN Return(BoolV(TRUE))
        ELSE IF v.v \in FALSE_VALUES THEN Return(BoolV(FALSE))
        ELSE Raise("ValueError")
    ELSE Raise("ValueError")

\* int(s) for a str: an optional sign and decimal digits
ParseInt(s) ==
    IF Unsigned(s) # <<>> /\ AllDigits(Unsigned(s))
    THEN Return(IntV(SignOf(s) * DigitsVal(Unsigned(s))))
    ELSE Raise("ValueError")

\* int(x) for a float: truncation towards zero
TruncTenths(n) == IF n < 0 THEN -((-n) \div 10) ELSE n \div 10

value_to_int(v) ==
    IF v.t = "none" THEN Return(None)
    ELSE IF v.t = "bool" THEN Return(IntV(IF v.v THEN 1 ELSE 0))
    ELSE IF v.t = "int" THEN Return(v)
    ELSE IF v.t = "str" THEN ParseInt(v.v)
    ELSE IF v.t = "float" THEN Return(IntV(TruncTenths(v.v)))
    ELSE Raise("ValueError")

DotAt(s) == IF \E i \in 1..Len(s) : s[i] = "." THEN CHOOSE i \in 1..Len(s) : s[i] = "." ELSE 0

\* float(s) for a str: an optional sign, digits, and optionally a point and
\* at most one more digit (the tenths)
ParseFloat(s) ==
    LET u == Unsigned(s)
        d == DotAt(u)
        whole == IF d = 0 THEN u ELSE SubSeq(u, 1, d - 1)
        frac == IF d = 0 THEN <<>> ELSE SubSeq(u, d + 1, Len(u))
    IN IF AllDigits(whole) /\ AllDigits(frac) /\ Len(whole) + Len(frac) > 0 /\ Len(frac) <= 1
       THEN Return(FloatV(SignOf(s) * (10 * DigitsVal(whole) + DigitsVal(frac))))
       ELSE Raise("ValueError")

value_to_float(v) ==
    IF v.t = "none" THEN Return(None)
    ELSE IF v.t = "bool" THEN Return(FloatV(IF v.v THEN 10 ELSE 0))
    ELSE IF v.t = "int" THEN Return(FloatV(10 * v.v))
    ELSE IF v.t = "float" THEN Return(v)
    ELSE IF v.t = "str" THEN ParseFloat(v.v)
    ELSE Raise("ValueError")

\* str(x) for a float
FloatStr(n) ==
    LET a == IF n < 0 THEN -n ELSE n
    IN (IF n < 0 THEN <<"-">> ELSE <<>>) \o NatStr(a \div 10) \o <<".">> \o NatStr(a % 10)

value_to_string(v) ==
    IF v.t = "none" THEN Return(None)
    ELSE IF v.t = "bool" THEN Return(StrV(IF v.v THEN <<"t","r","u","e">> ELSE <<"f","a","l","s","e">>))
    ELSE IF v.t = "str" THEN Return(v)
    ELSE IF v.t = "int" THEN Return(StrV(IntStr(v.v)))
    ELSE IF v.t = "float" THEN Return(StrV(FloatStr(v.v)))
    ELSE Raise("ValueError")

cast_option_value(v, option) ==
    IF option.type = "str" THEN value_to_string(v)
    ELSE IF option.type = "int" THEN value_to_int(v)
    ELSE IF option.type = "float" THEN value_to_float(v)
    ELSE IF option.type = "bool" THEN value_to_bool(v)
    ELSE Raise("InternalError")

----------------------------------------------------------------------------
(* Option *)

\* Option.__init__(name, type, default, is_required); NoType is type=None
NoType == "unspecified"

Option(name, type, default, is_required) ==
    [name |-> name,
     default |-> default,
     type |-> IF type = NoType THEN "str" ELSE type,
     label |-> name,
     is_required |-> is_required]

----------------------------------------------------------------------------
(* OptionDict *)

\* A Python dict is a function on its set of keys; {} is the empty function.
EmptyDict == <<>>
SetKey(d, k, v) == (k :> v) @@ d

\* The constructor's `mapping` argument is a sequence of <<key, value>> pairs
\* with distinct keys: the keys in iteration order.
Keys(m) == {m[i][1] : i \in 1..Len(m)}
Lookup(m, key) == m[CHOOSE i \in 1..Len(m) : m[i][1] = key][2]

\* keymap = dict((key.lower(), key) for key in mapping): the last key wins
KeyMap(m) ==
    [lk \in {Lower(k) : k \in Keys(m)} |->
        LET i == CHOOSE i \in 1..Len(m) :
                    /\ Lower(m[i][1]) = lk
                    /\ \A j \in 1..Len(m) : Lower(m[j][1]) = lk => j <= i
        IN m[i][1]]

UnknownPrefix == <<"U","n","k","n","o","w","n"," ","o","p","t","i","o","n","s",":"," ">>

\* The `for option in options` loop from its i-th iteration on; obj holds the
\* two fields built so far.
RECURSIVE ResolveOptions_DefaultFirst(_, _, _, _, _)
ResolveOptions_DefaultFirst(m, keymap, opts, i, obj) ==
    IF i > Len(opts) THEN [exc |-> "none", msg |-> <<>>, _dict |-> obj._dict, _options |-> obj._options]
    ELSE LET option == opts[i]
             name == Lower(option.name)
             known == SetKey(obj._options, name, option)
         IN IF name \in DOMAIN keymap
            THEN ResolveOptions_DefaultFirst(m, keymap, opts, i + 1,
                    [_dict |-> SetKey(obj._dict, name, Lookup(m, keymap[name])), _options |-> known])
            ELSE IF option.default # None
            THEN ResolveOptions_DefaultFirst(m, keymap, opts, i + 1,
                    [_dict |-> SetKey(obj._dict, name, option.default), _options |-> known])
            ELSE IF option.is_required
            THEN [exc |-> "OptionRequiredError", msg |-> name, _dict |-> EmptyDict, _options |-> EmptyDict]
            ELSE ResolveOptions_DefaultFirst(m, keymap, opts, i + 1, [_dict |-> obj._dict, _options |-> known])

RECURSIVE ResolveOptions_RawWins(_, _, _, _, _)
ResolveOptions_RawWins(m, keymap, opts, i, obj) ==
    IF i > Len(opts) THEN [exc |-> "none", msg |-> <<>>, _dict |-> obj._dict, _options |-> obj._options]
    ELSE LET option == opts[i]
             name == Lower(option.name)
             known == SetKey(obj._options, name, option)
         IN IF name \in DOMAIN keymap /\ option.default = None
            THEN ResolveOptions_RawWins(m, keymap, opts, i + 1,
                    [_dict |-> SetKey(obj._dict, name, Lookup(m, keymap[name])), _options |-> known])
            ELSE IF name \notin DOMAIN keymap /\ option.is_required
            THEN [exc |-> "OptionRequiredError", msg |-> name, _dict |-> EmptyDict, _options |-> EmptyDict]
            ELSE IF option.default # None
            THEN ResolveOptions_RawWins(m, keymap, opts, i + 1,
                    [_dict |-> SetKey(obj._dict, name, option.default), _options |-> known])
            ELSE ResolveOptions_RawWins(m, keymap, opts, i + 1, [_dict |-> obj._dict, _options |-> known])

RECURSIVE ResolveOptions(_, _, _, _, _)
ResolveOptions(m, keymap, opts, i, obj) ==
    IF i > Len(opts) THEN [exc |-> "none", msg |-> <<>>, _dict |-> obj._dict, _options |-> obj._options]
    ELSE LET option == opts[i]
             name == Lower(option.name)
             known == SetKey(obj._options, name, option)
         IN IF name \in DOMAIN keymap
            THEN ResolveOptions(m, keymap, opts, i + 1,
                    [_dict |-> SetKey(obj._dict, name, Lookup(m, keymap[name])), _options |-> known])
            ELSE IF option.is_required
            THEN [exc |-> "OptionRequiredError", msg |-> name, _dict |-> EmptyDict, _options |-> EmptyDict]
            ELSE IF option.default # None
            THEN ResolveOptions(m, keymap, opts, i + 1,
                    [_dict |-> SetKey(obj._dict, name, option.default), _options |-> known])
            ELSE ResolveOptions(m, keymap, opts, i + 1, [_dict |-> obj._dict, _options |-> known])

\* extra_keys = set(mapping.keys()) - set(self._dict.keys())
ExtraKeys(m, d) == Keys(m) \ DOMAIN d

\* OptionDict.__init__(mapping, options): the exception raised ("none" when
\* the object is built), its message, and the object's two fields.
OptionDict_init(m, opts) ==
    LET r == ResolveOptions(m, KeyMap(m), opts, 1, [_dict |-> EmptyDict, _options |-> EmptyDict])
        extra_keys == IF r.exc = "none" THEN ExtraKeys(m, r._dict) ELSE {}
    IN IF r.exc # "none" THEN r
       ELSE IF extra_keys # {}
       THEN [exc |-> "ConfigurationError",
             msg |-> UnknownPrefix \o Join(<<",", " ">>, Sorted(extra_keys)),
             _dict |-> EmptyDict, _options |-> EmptyDict]
       ELSE r

\* OptionDict.get(option, default)
get(d, option, default) ==
    IF Lower(option) \in DOMAIN d THEN d[Lower(option)] ELSE default

\* OptionDict.getbool(option, default)
getbool(d, option, default) ==
    LET v == get(d, option, default)
    IN IF v = None THEN Return(None) ELSE value_to_bool(v)

\* OptionDict.casted()
casted(d, o) ==
    LET cast == [key \in DOMAIN d |-> cast_option_value(get(d, key, None), o[key])]
        failing == {key \in DOMAIN d : cast[key].exc # "none"}
    IN IF failing # {}
       THEN Raise(cast[CHOOSE key \in failing : TRUE].exc)
       ELSE Return([key \in DOMAIN d |-> cast[key].val])

----------------------------------------------------------------------------
(* Inputs of the option dictionary *)

MaxOptions == 2
MaxRaw == 2

s_in == <<"i","n">>
s_IN == <<"I","N">>
s_In == <<"I","n">>
s_y == <<"y">>
s_on == <<"o","n">>

\* Option descriptors: every type, with and without default, required or not,
\* and names that differ only in case.
OptionPool ==
    { Option(s_In, "int", None, FALSE),
      Option(s_in, "int", IntV(4), FALSE),
      Option(s_y, NoType, None, TRUE),
      Option(s_y, "bool", StrV(s_on), TRUE),
      Option(s_IN, "str", None, FALSE),
      Option(s_y, "float", StrV(<<"1",".","5">>), FALSE) }

RawKeys == {s_in, s_IN, s_y}
RawValues == {IntV(8), StrV(<<"1","0">>)}

Schemas == UNION {[1..n -> OptionPool] : n \in 0..MaxOptions}

RawMappings ==
    {m \in UNION {[1..n -> RawKeys \X RawValues] : n \in 0..MaxRaw} :
        \A i, j \in 1..Len(m) : m[i][1] = m[j][1] => i = j}

NoCall == [op |-> "none", key |-> <<>>, arg |-> None, out |-> Return(None), kwargs |-> EmptyDict]

OptInit ==
    /\ mapping \in RawMappings
    /\ options \in Schemas
    /\ pc = "input"
    /\ _dict = EmptyDict
    /\ _options = EmptyDict
    /\ raised = [exc |-> "none", msg |-> <<>>]
    /\ ret = NoCall

OptIdle ==
    /\ mapping = <<>>
    /\ options = <<>>
    /\ pc = "idle"
    /\ _dict = EmptyDict
    /\ _options = EmptyDict
    /\ raised = [exc |-> "none", msg |-> <<>>]
    /\ ret = NoCall

\* options = OptionDict(mapping=mapping, options=options)
Construct ==
    /\ pc = "input"
    /\ LET r == OptionDict_init(mapping, options)
       IN /\ pc' = IF r.exc = "none" THEN "built" ELSE "failed"
          /\ raised' = [exc |-> r.exc, msg |-> r.msg]
          /\ _dict' = r._dict
          /\ _options' = r._options
    /\ UNCHANGED <<mapping, options, ret, coerceVars, regVars>>

\* cls.create_with_dict(mapping): the OptionDict is local to the call; the
\* keyword arguments the class is constructed with are casted().
CreateWithDict ==
    /\ pc = "input"
    /\ LET r == OptionDict_init(mapping, options)
           c == casted(r._dict, r._options)
       IN /\ pc' = "done"
          /\ raised' = [exc |-> r.exc, msg |-> r.msg]
          /\ ret' = [NoCall EXCEPT !.op = "create_with_dict",
                        !.out = IF r.exc # "none" THEN Raise(r.exc)
                                ELSE IF c.exc # "none" THEN Raise(c.exc)
                                ELSE Return(None),
                        !.kwargs = IF r.exc = "none" /\ c.exc = "none" THEN c.val ELSE EmptyDict]
    /\ UNCHANGED <<mapping, options, _dict, _options, coerceVars, regVars>>

\* options.casted()
Casted ==
    /\ pc = "built"
    /\ LET c == casted(_dict, _options)
       IN ret' = [NoCall EXCEPT !.op = "casted",
                     !.out = IF c.exc # "none" THEN Raise(c.exc) ELSE Return(None),
                     !.kwargs = IF c.exc = "none" THEN c.val ELSE EmptyDict]
    /\ UNCHANGED <<mapping, options, pc, _dict, _options, raised, coerceVars, regVars>>

CallKeys == {s_IN, s_y}
CallDefaults == {None, BoolV(TRUE)}

\* options.get(key, default)
Get(key, default) ==
    /\ pc = "built"
    /\ ret' = [NoCall EXCEPT !.op = "get", !.key = key, !.arg = default,
                  !.out = Return(get(_dict, key, default))]
    /\ UNCHANGED <<mapping, options, pc, _dict, _options, raised, coerceVars, regVars>>

\* options.getbool(key, default)
GetBool(key, default) ==
    /\ pc = "built"
    /\ ret' = [NoCall EXCEPT !.op = "getbool", !.key = key, !.arg = default,
                  !.out = getbool(_dict, key, default)]
    /\ UNCHANGED <<mapping, options, pc, _dict, _options, raised, coerceVars, regVars>>

\* The effect of options[key] = v on the object's field, and what it raises.
setitem(d, key, v) == [_dict |-> d, exc |-> "InternalError"]

\* options[key] = v
SetItem(key, v) ==
    /\ pc = "built"
    /\ LET r == setitem(_dict, key, v)
       IN /\ _dict' = r._dict
          /\ ret' = [NoCall EXCEPT !.op = "setitem", !.key = key, !.arg = v,
                        !.out = IF r.exc = "none" THEN Return(None) ELSE Raise(r.exc)]
    /\ UNCHANGED <<mapping, options, pc, _options, raised, coerceVars, regVars>>

\* del options[key]: the class defines no __delitem__, and the interpreter
\* raises TypeError or AttributeError, whichever its version does.
DelItem(key) ==
    /\ pc = "built"
    /\ \E e \in {"TypeError", "AttributeError"} :
          ret' = [NoCall EXCEPT !.op = "delitem", !.key = key, !.out = Raise(e)]
    /\ UNCHANGED <<mapping, options, pc, _dict, _options, raised, coerceVars, regVars>>

----------------------------------------------------------------------------
(* Inputs of the coercion functions *)

ValuePool ==
    {None, BoolV(TRUE), BoolV(FALSE)}
    \cup {IntV(n) : n \in {-1, 0, 1, 2}}
    \cup {FloatV(n) : n \in {0, 15, -5}}
    \cup {StrV(s) : s \in TRUE_VALUES \cup FALSE_VALUES}
    \cup {StrV(s) : s \in {<<"m","a","y","b","e">>, <<"T","r","u","e">>, <<>>, <<"O","N">>,
                           <<"2">>, <<"1","0">>, <<"1",".","5">>, <<"-","3">>}}

NoCoercion == [fn |-> "none", type |-> "none", key |-> <<>>, arg |-> None, out |-> Return(None)]

CoerceInit == value \in ValuePool /\ retval = NoCoercion
CoerceIdle == value = None /\ retval = NoCoercion

ValueToBool ==
    /\ retval' = [NoCoercion EXCEPT !.fn = "value_to_bool", !.out = value_to_bool(value)]
    /\ UNCHANGED <<value, optVars, regVars>>

ValueToInt ==
    /\ retval' = [NoCoercion EXCEPT !.fn = "value_to_int", !.out = value_to_int(value)]
    /\ UNCHANGED <<value, optVars, regVars>>

ValueToFloat ==
    /\ retval' = [NoCoercion EXCEPT !.fn = "value_to_float", !.out = value_to_float(value)]
    /\ UNCHANGED <<value, optVars, regVars>>

ValueToString ==
    /\ retval' = [NoCoercion EXCEPT !.fn = "value_to_string", !.out = value_to_string(value)]
    /\ UNCHANGED <<value, optVars, regVars>>

GetBoolKeys == {s_in, s_IN, s_y}
GetBoolDefaults == {None, BoolV(TRUE), StrV(<<"m","a","y","b","e">>)}

\* The dictionary OptionDict({"in": value}, [Option("In", type)])
DictOf(v, type) ==
    OptionDict_init(<< <<s_in, v>> >>, << Option(s_In, type, None, FALSE) >>)._dict

\* OptionDict({"in": value}, [Option("In", type)]).getbool(key, default)
GetBoolOf(type, key, default) ==
    /\ retval' = [NoCoercion EXCEPT !.fn = "getbool", !.type = type, !.key = key,
                     !.arg = default, !.out = getbool(DictOf(value, type), key, default)]
    /\ UNCHANGED <<value, optVars, regVars>>

----------------------------------------------------------------------------
(* Extensible classes and importable modules: the registry's environment *)

Points == {"printer", "store"}
n_pretty == <<"p","r","e","t","t","y">>
n_plain == <<"p","l","a","i","n">>

Names == {n_pretty, n_plain}
Locators == {"modA", "modB"}

NoClass == "none"
NoLocator == "none"
NoText == "none"
NoName == <<>>

\* The class attributes of the Extensible classes of the model, and the
\* is_base keyword of their definitions.
ClassTable ==
    [Printer |-> [extension_type |-> "printer", extension_name |-> NoName, is_base |-> TRUE,
                  extension_label |-> NoName, extension_desc |-> NoText, doc |-> NoText,
                  extension_options |-> <<>>],
     PrettyA |-> [extension_type |-> "printer", extension_name |-> n_pretty, is_base |-> FALSE,
                  extension_label |-> <<"P">>, extension_desc |-> NoText, doc |-> "Pretty printer.",
                  extension_options |-> <<Option(s_in, "int", IntV(4), FALSE)>>],
     PrettyB |-> [extension_type |-> "printer", extension_name |-> n_pretty, is_base |-> FALSE,
                  extension_label |-> NoName, extension_desc |-> "Another pretty printer", doc |-> NoText,
                  extension_options |-> <<>>],
     PlainB  |-> [extension_type |-> "printer", extension_name |-> n_plain, is_base |-> FALSE,
                  extension_label |-> NoName, extension_desc |-> NoText, doc |-> NoText,
                  extension_options |-> <<>>],
     Store   |-> [extension_type |-> "store", extension_name |-> NoName, is_base |-> TRUE,
                  extension_label |-> NoName, extension_desc |-> NoText, doc |-> NoText,
                  extension_options |-> <<>>],
     T1      |-> [extension_type |-> "printer", extension_name |-> n_pretty, is_base |-> FALSE,
                  extension_label |-> NoName, extension_desc |-> NoText, doc |-> "T1 doc",
                  extension_options |-> <<>>]]

\* The class statements a module executes, in order, when it is first imported.
ModuleBody ==
    [modA |-> <<"Printer", "PrettyA">>,
     modB |-> <<"PlainB", "PrettyB">>]

\* Classes the application defines itself, and the class it registers by hand.
AppClasses == {"Store", "T1"}
HandClasses == {"T1"}

\* The register_lazy calls the application makes: the right locator, a locator
\* that registers another name, one that is later replaced, and one that
\* registers into another catalog.
LazyCalls ==
    { <<"printer", n_pretty, "modA">>,
      <<"printer", n_plain, "modA">>,
      <<"printer", n_plain, "modB">>,
      <<"store", n_pretty, "modA">> }

----------------------------------------------------------------------------
(* ExtensionRegistry *)

\* ExtensionRegistry.__init__(name)
ExtensionRegistry(name) == [name |-> name, classes |-> EmptyDict, modules |-> EmptyDict]

\* ExtensionRegistry.registry(name): the catalogs after the call
registry(G, name) ==
    IF name \notin DOMAIN G THEN SetKey(G, name, ExtensionRegistry(name)) ELSE G

register_KeepFirst(G, p, name, extension) ==
    IF name \in DOMAIN G[p].classes THEN G
    ELSE [G EXCEPT ![p].classes = SetKey(@, name, extension)]

\* G[p].register(name, extension)
register(G, p, name, extension) ==
    [G EXCEPT ![p].classes = SetKey(@, name, extension)]

register_lazy_Unresolves(G, p, name, module) ==
    [G EXCEPT ![p].modules = SetKey(@, name, module),
              ![p].classes = [k \in (DOMAIN @) \ {name} |-> @[k]]]

\* G[p].register_lazy(name, module)
register_lazy(G, p, name, module) ==
    [G EXCEPT ![p].modules = SetKey(@, name, module)]

\* Extensible.__init_subclass__(cls, is_base)
init_subclass(G, cls) ==
    LET c == ClassTable[cls]
        G1 == registry(G, c.extension_type)
    IN IF ~c.is_base THEN register(G1, c.extension_type, c.extension_name, cls) ELSE G1

\* The class statements body[i..] of a module, executed in order.
RECURSIVE ExecBody(_, _, _)
ExecBody(G, body, i) ==
    IF i > Len(body) THEN G ELSE ExecBody(init_subclass(G, body[i]), body, i + 1)

\* import_module(module): a module already in sys.modules is not executed again.
import_module(G, S, module) ==
    IF module \in S THEN [G |-> G, S |-> S]
    ELSE [G |-> ExecBody(G, ModuleBody[module], 1), S |-> S \cup {module}]

extension_AlwaysLoads(G, S, p, name) ==
    LET load == name \in DOMAIN G[p].modules
        m == IF load THEN import_module(G, S, G[p].modules[name]) ELSE [G |-> G, S |-> S]
        found == name \in DOMAIN m.G[p].classes
    IN [G |-> m.G, S |-> m.S,
        imported |-> IF load THEN G[p].modules[name] ELSE NoLocator,
        exc |-> IF found THEN "none" ELSE "InternalError",
        msg |-> IF found THEN <<>> ELSE <<name, m.G[p].name>>,
        result |-> IF found THEN m.G[p].classes[name] ELSE NoClass]

extension_UnknownIsNone(G, S, p, name) ==
    LET load == name \notin DOMAIN G[p].classes /\ name \in DOMAIN G[p].modules
        m == IF load THEN import_module(G, S, G[p].modules[name]) ELSE [G |-> G, S |-> S]
        found == name \in DOMAIN m.G[p].classes
    IN [G |-> m.G, S |-> m.S,
        imported |-> IF load THEN G[p].modules[name] ELSE NoLocator,
        exc |-> "none",
        msg |-> <<>>,
        result |-> IF found THEN m.G[p].classes[name] ELSE NoClass]

\* G[p].extension(name): the catalogs and sys.modules after the call, the
\* module it imported, the exception it raised with the two names its message
\* carries, and the class it returned.
extension(G, S, p, name) ==
    LET load == name \notin DOMAIN G[p].classes /\ name \in DOMAIN G[p].modules
        m == IF load THEN import_module(G, S, G[p].modules[name]) ELSE [G |-> G, S |-> S]
        found == name \in DOMAIN m.G[p].classes
    IN [G |-> m.G, S |-> m.S,
        imported |-> IF load THEN G[p].modules[name] ELSE NoLocator,
        exc |-> IF found THEN "none" ELSE "InternalError",
        msg |-> IF found THEN <<>> ELSE <<name, m.G[p].name>>,
        result |-> IF found THEN m.G[p].classes[name] ELSE NoClass]

\* G[p].registered_names()
registered_names(G, p) ==
    Sorted(DOMAIN G[p].classes \cup DOMAIN G[p].modules)

\* G[p].describe(name), given the outcome e of self.extension(name)
describe(p_name, name, e) ==
    LET ext == ClassTable[e.result]
    IN [type |-> p_name,
        name |-> name,
        label |-> IF ext.extension_label # <<>> THEN ext.extension_label ELSE name,
        doc |-> IF ext.extension_desc # NoText THEN ext.extension_desc
                ELSE IF ext.doc # NoText THEN ext.doc
                ELSE "(No documentation)",
        options |-> ext.extension_options]

----------------------------------------------------------------------------
(* The registry's operations *)

NoDesc == [type |-> "none", name |-> NoName, label |-> NoName, doc |-> NoText, options |-> <<>>]

NoRegCall ==
    [op |-> "none", point |-> "none", name |-> NoName, cls |-> NoClass, module |-> NoLocator,
     imported |-> NoLocator, exc |-> "none", msg |-> <<>>, result |-> NoClass,
     names |-> <<>>, desc |-> NoDesc]

RegInit ==
    /\ _global_registries = EmptyDict
    /\ sys_modules = {}
    /\ last = NoRegCall
    /\ registered = [pn \in Points \X Names |-> NoClass]
    /\ resolved = [pn \in Points \X Names |-> NoClass]

RegIdle == RegInit

\* History: the register() calls the class statements body[i..] make.
RECURSIVE NoteBody(_, _, _)
NoteBody(R, body, i) ==
    IF i > Len(body) THEN R
    ELSE LET c == ClassTable[body[i]]
         IN NoteBody(IF c.is_base THEN R
                     ELSE [R EXCEPT ![<<c.extension_type, c.extension_name>>] = body[i]],
                     body, i + 1)

\* History: the register() calls made by the import a lookup triggered.
NoteImport(R, S, e) ==
    IF e.imported # NoLocator /\ e.imported \notin S
    THEN NoteBody(R, ModuleBody[e.imported], 1)
    ELSE R

\* History: the class the first lookup of a name that imported its locator returned.
NoteResolved(p, name, e) ==
    IF e.imported # NoLocator /\ e.exc = "none" /\ resolved[<<p, name>>] = NoClass
    THEN [resolved EXCEPT ![<<p, name>>] = e.result]
    ELSE resolved

\* class cls(Base, is_base=...): ...   executed by the application
DefineSubclass(cls) ==
    /\ _global_registries' = init_subclass(_global_registries, cls)
    /\ registered' = NoteBody(registered, <<cls>>, 1)
    /\ last' = [NoRegCall EXCEPT !.op = "define", !.cls = cls,
                   !.point = ClassTable[cls].extension_type,
                   !.name = ClassTable[cls].extension_name]
    /\ UNCHANGED <<sys_modules, resolved, optVars, coerceVars>>

\* ExtensionRegistry.registry(p).register(name, cls)
Register(p, name, cls) ==
    /\ _global_registries' = register(registry(_global_registries, p), p, name, cls)
    /\ registered' = [registered EXCEPT ![<<p, name>>] = cls]
    /\ last' = [NoRegCall EXCEPT !.op = "register", !.point = p, !.name = name, !.cls = cls]
    /\ UNCHANGED <<sys_modules, resolved, optVars, coerceVars>>

\* ExtensionRegistry.registry(p).register_lazy(name, module)
RegisterLazy(p, name, module) ==
    /\ _global_registries' = register_lazy(registry(_global_registries, p), p, name, module)
    /\ last' = [NoRegCall EXCEPT !.op = "register_lazy", !.point = p, !.name = name,
                   !.module = module]
    /\ UNCHANGED <<sys_modules, registered, resolved, optVars, coerceVars>>

\* ExtensionRegistry.registry(p).extension(name)
Extension(p, name) ==
    LET e == extension(registry(_global_registries, p), sys_modules, p, name)
    IN /\ _global_registries' = e.G
       /\ sys_modules' = e.S
       /\ registered' = NoteImport(registered, sys_modules, e)
       /\ resolved' = NoteResolved(p, name, e)
       /\ last' = [NoRegCall EXCEPT !.op = "extension", !.point = p, !.name = name,
                      !.imported = e.imported, !.exc = e.exc, !.msg = e.msg,
                      !.result = e.result]
       /\ UNCHANGED <<optVars, coerceVars>>

\* cls.concrete_extension(name)
ConcreteExtension(cls, name) ==
    LET p == ClassTable[cls].extension_type
        e == extension(registry(_global_registries, p), sys_modules, p, name)
    IN /\ _global_registries' = e.G
       /\ sys_modules' = e.S
       /\ registered' = NoteImport(registered, sys_modules, e)
       /\ resolved' = NoteResolved(p, name, e)
       /\ last' = [NoRegCall EXCEPT !.op = "concrete_extension", !.point = p, !.name = name,
                      !.cls = cls, !.imported = e.imported, !.exc = e.exc, !.msg = e.msg,
                      !.result = e.result]
       /\ UNCHANGED <<optVars, coerceVars>>

\* ExtensionRegistry.registry(p).registered_names()
RegisteredNames(p) ==
    /\ _global_registries' = registry(_global_registries, p)
    /\ last' = [NoRegCall EXCEPT !.op = "registered_names", !.point = p,
                   !.names = registered_names(registry(_global_registries, p), p)]
    /\ UNCHANGED <<sys_modules, registered, resolved, optVars, coerceVars>>

\* ExtensionRegistry.registry(p).describe(name)
Describe(p, name) ==
    LET G == registry(_global_registries, p)
        e == extension(G, sys_modules, p, name)
    IN /\ _global_registries' = e.G
       /\ sys_modules' = e.S
       /\ registered' = NoteImport(registered, sys_modules, e)
       /\ resolved' = NoteResolved(p, name, e)
       /\ last' = [NoRegCall EXCEPT !.op = "describe", !.point = p, !.name = name,
                      !.imported = e.imported, !.exc = e.exc, !.msg = e.msg,
                      !.desc = IF e.exc = "none" THEN describe(G[p].name, name, e) ELSE NoDesc]
       /\ UNCHANGED <<optVars, coerceVars>>

----------------------------------------------------------------------------
(* Specifications of the option dictionary and of the coercions *)

OptNext ==
    \/ Construct
    \/ CreateWithDict
    \/ Casted
    \/ \E key \in CallKeys, default \in CallDefaults : Get(key, default)
    \/ \E key \in CallKeys, default \in CallDefaults : GetBool(key, default)
    \/ \E key \in CallKeys : SetItem(key, IntV(8))
    \/ \E key \in CallKeys : DelItem(key)

InitOpt == OptInit /\ CoerceIdle /\ RegIdle

SpecOpt == InitOpt /\ [][OptNext]_vars

CoerceNext ==
    \/ ValueToBool
    \/ ValueToInt
    \/ ValueToFloat
    \/ ValueToString
    \/ \E type \in OptionType, key \in GetBoolKeys, default \in GetBoolDefaults :
          GetBoolOf(type, key, default)

InitCoerce == CoerceInit /\ OptIdle /\ RegIdle

SpecCoerce == InitCoerce /\ [][CoerceNext]_vars

----------------------------------------------------------------------------
(* Specifications of the registry *)

Init == RegInit /\ OptIdle /\ CoerceIdle

Next ==
    \/ \E cls \in AppClasses : DefineSubclass(cls)
    \/ \E p \in Points, name \in Names, cls \in HandClasses : Register(p, name, cls)
    \/ \E call \in LazyCalls : RegisterLazy(call[1], call[2], call[3])
    \/ \E p \in Points, name \in Names : Extension(p, name)
    \/ \E cls \in AppClasses, name \in Names : ConcreteExtension(cls, name)
    \/ \E p \in Points : RegisteredNames(p)
    \/ \E p \in Points, name \in Names : Describe(p, name)

Spec == Init /\ [][Next]_vars

\* Lookups only: every registration comes from a lazily imported module.
NextLazy ==
    \/ \E call \in LazyCalls : RegisterLazy(call[1], call[2], call[3])
    \/ \E p \in Points, name \in Names : Extension(p, name)

SpecLazy == Init /\ [][NextLazy]_vars

----------------------------------------------------------------------------
(* Properties of the option dictionary (SpecOpt) *)

Constructed == pc \in {"built", "failed", "done"}

\* The raw mapping supplies a value for option o (keys match ignoring case).
Supplied(o) == \E k \in Keys(mapping) : Lower(k) = Lower(o.name)
RawValueFor(o) == Lookup(mapping, CHOOSE k \in Keys(mapping) : Lower(k) = Lower(o.name))
Present(o) == Supplied(o) \/ o.default # None
SourceValue(o) == IF Supplied(o) THEN RawValueFor(o) ELSE o.default

Declared(k) == \E i \in 1..Len(options) : Lower(options[i].name) = Lower(k)
MissingRequired == {i \in 1..Len(options) : options[i].is_required /\ ~Supplied(options[i])}
FirstMissing == CHOOSE i \in MissingRequired : \A j \in MissingRequired : i <= j

DistinctKeys == \A k1, k2 \in Keys(mapping) : Lower(k1) = Lower(k2) => k1 = k2
DistinctNames ==
    \A i, j \in 1..Len(options) : Lower(options[i].name) = Lower(options[j].name) => i = j

\* C1: whenever every raw key equals, ignoring case, the name of a declared
\* option (and no required option is missing, and no two raw keys collide),
\* construction succeeds and every raw key's lowercased name is a key of the
\* dictionary holding the supplied value.
C1_CaseInsensitive ==
    (Constructed /\ DistinctKeys /\ MissingRequired = {} /\ \A k \in Keys(mapping) : Declared(k))
        => /\ raised.exc = "none"
           /\ pc = "built" =>
                \A k \in Keys(mapping) :
                    Lower(k) \in DOMAIN _dict /\ _dict[Lower(k)] = Lookup(mapping, k)

\* The raw keys that match no declared option name, ignoring case.
Offending == {k \in Keys(mapping) : ~Declared(k)}

\* C2: when no required option is missing, construction fails with the
\* unknown-options error if and only if some raw key matches no declared
\* option name ignoring case, and the message lists exactly those keys,
\* sorted and comma-joined.
C2_UnknownIff ==
    (Constructed /\ MissingRequired = {})
        => /\ (raised.exc = "ConfigurationError") <=> (Offending # {})
           /\ raised.exc \in {"none", "ConfigurationError"}
           /\ Offending # {} =>
                raised.msg = UnknownPrefix \o Join(<<",", " ">>, Sorted(Offending))

\* C3: whenever a required option has no supplied value, construction fails
\* with the required-option error naming (in lower case) the first such
\* option, whatever its default and whatever else the raw mapping holds, and
\* no dictionary and no keyword values are produced.
C3_RequiredMissing ==
    (Constructed /\ MissingRequired # {})
        => /\ raised.exc = "OptionRequiredError"
           /\ raised.msg = Lower(options[FirstMissing].name)
           /\ pc \in {"failed", "done"}
           /\ _dict = EmptyDict
           /\ ret.kwargs = EmptyDict
           /\ pc = "done" => ret.out = Raise("OptionRequiredError")

\* C3 witness: construction has failed on a required option that declares a
\* default, with a raw mapping that also holds an unknown key.
C3_Witness ==
    /\ pc = "failed"
    /\ raised.exc = "OptionRequiredError"
    /\ MissingRequired # {}
    /\ options[FirstMissing].default # None
    /\ Offending # {}

CastedCalled == ret.op \in {"casted", "create_with_dict"} /\ raised.exc = "none"
CastedReturned == CastedCalled /\ ret.out.exc = "none"

ExpectedKeys == {Lower(options[i].name) : i \in {j \in 1..Len(options) : Present(options[j])}}

CastedAsDeclared ==
    /\ DOMAIN ret.kwargs = ExpectedKeys
    /\ \A i \in 1..Len(options) :
          Present(options[i]) =>
             ret.kwargs[Lower(options[i].name)]
                = cast_option_value(SourceValue(options[i]), options[i]).val

\* C4 as stated: whenever casted() returns, its keys are the lowercased
\* names of the declared options that were supplied or have a default, and
\* each value is the supplied value (else the default) coerced to the type of
\* the option it belongs to.
C4_Original == CastedReturned => CastedAsDeclared

\* C4 amended: the same for schemas whose option names are distinct ignoring
\* case; and casted() raises, with a value error, exactly when one of those
\* coercions does.
C4_Casted ==
    (CastedCalled /\ DistinctNames)
        => /\ ret.out.exc \in {"none", "ValueError"}
           /\ (ret.out.exc = "ValueError") <=>
                \E i \in 1..Len(options) :
                    /\ Present(options[i])
                    /\ cast_option_value(SourceValue(options[i]), options[i]).exc # "none"
           /\ ret.out.exc = "none" => CastedAsDeclared

\* C4 witness: casted() has returned 10 for an int option with default 4 that
\* was supplied the string "10".
C4_Witness ==
    /\ pc = "built"
    /\ ret.op = "casted"
    /\ DistinctNames
    /\ options = <<Option(s_in, "int", IntV(4), FALSE)>>
    /\ mapping = << <<s_in, StrV(<<"1","0">>)>> >>
    /\ ret.kwargs = (s_in :> IntV(10))

\* C9: on a constructed dictionary every attempted write (item assignment or
\* deletion) fails with the internal-misuse error, and no call changes the
\* resolved values.
C9_ReadOnly ==
    [][pc = "built" =>
          /\ _dict' = _dict
          /\ _options' = _options
          /\ ret'.op \in {"setitem", "delitem"} => ret'.out.exc = "InternalError"]_vars

----------------------------------------------------------------------------
(* Properties of the coercions (SpecCoerce) *)

\* C5: value_to_bool follows the table (None to None, a bool to itself, an
\* int to whether it is not 0, the four true strings to true, the four false
\* strings to false, any other string to a value error), and getbool returns
\* what value_to_bool returns for the result of get().
C5_BoolTable ==
    /\ retval.fn = "value_to_bool" =>
          /\ value = None => retval.out = Return(None)
          /\ value.t = "bool" => retval.out = Return(value)
          /\ value.t = "int" => retval.out = Return(BoolV(value.v # 0))
          /\ value.t = "str" =>
                IF value.v \in {<<"1">>, <<"t","r","u","e">>, <<"y","e","s">>, <<"o","n">>}
                THEN retval.out = Return(BoolV(TRUE))
                ELSE IF value.v \in {<<"0">>, <<"f","a","l","s","e">>, <<"n","o">>, <<"o","f","f">>}
                THEN retval.out = Return(BoolV(FALSE))
                ELSE retval.out = Raise("ValueError")
    /\ retval.fn = "getbool" =>
          retval.out = value_to_bool(get(DictOf(value, retval.type), retval.key, retval.arg))

\* C5 witness: value_to_bool has been applied to the string "True", which is
\* none of the eight table strings, and raised a value error.
C5_Witness ==
    /\ retval.fn = "value_to_bool"
    /\ value = StrV(<<"T","r","u","e">>)
    /\ retval.out = Raise("ValueError")

----------------------------------------------------------------------------
(* Properties of the registry (Spec, SpecLazy) *)

ClassesOf(G, p) == IF p \in DOMAIN G THEN G[p].classes ELSE EmptyDict
ModulesOf(G, p) == IF p \in DOMAIN G THEN G[p].modules ELSE EmptyDict
ClassAt(G, p, n) == IF n \in DOMAIN ClassesOf(G, p) THEN ClassesOf(G, p)[n] ELSE NoClass
ModuleAt(G, p, n) == IF n \in DOMAIN ModulesOf(G, p) THEN ModulesOf(G, p)[n] ELSE NoLocator
KnownNames(G, p) == DOMAIN ClassesOf(G, p) \cup DOMAIN ModulesOf(G, p)

Slots == Points \X Names

ClassesSame == \A pn \in Slots :
    ClassAt(_global_registries', pn[1], pn[2]) = ClassAt(_global_registries, pn[1], pn[2])
ModulesSame == \A pn \in Slots :
    ModuleAt(_global_registries', pn[1], pn[2]) = ModuleAt(_global_registries, pn[1], pn[2])
ClassesSameExcept(p, n) == \A pn \in Slots \ {<<p, n>>} :
    ClassAt(_global_registries', pn[1], pn[2]) = ClassAt(_global_registries, pn[1], pn[2])
ModulesSameExcept(p, n) == \A pn \in Slots \ {<<p, n>>} :
    ModuleAt(_global_registries', pn[1], pn[2]) = ModuleAt(_global_registries, pn[1], pn[2])

IsLookup(op) == op \in {"extension", "concrete_extension"}

\* Every catalog entry is the class most recently registered under its name,
\* and a successful lookup returns it.
C6_Inv ==
    /\ \A pn \in Slots : ClassAt(_global_registries, pn[1], pn[2]) = registered[pn]
    /\ (IsLookup(last.op) /\ last.exc = "none") => last.result = registered[<<last.point, last.name>>]

\* A class definition registers the class under its extension_name in the
\* catalog of its extension_type unless it is a base definition, a register
\* call installs its class, and neither touches any other entry.
C6_Step ==
    /\ last'.op = "define" =>
          /\ ModulesSame
          /\ IF ClassTable[last'.cls].is_base THEN ClassesSame
             ELSE /\ ClassAt(_global_registries', ClassTable[last'.cls].extension_type,
                             ClassTable[last'.cls].extension_name) = last'.cls
                  /\ ClassesSameExcept(ClassTable[last'.cls].extension_type,
                                       ClassTable[last'.cls].extension_name)
    /\ last'.op = "register" =>
          /\ ModulesSame
          /\ ClassAt(_global_registries', last'.point, last'.name) = last'.cls
          /\ ClassesSameExcept(last'.point, last'.name)

\* C6: a definition registers the class at definition time unless is_base;
\* register overwrites; a lookup returns the class most recently registered
\* under the name in that catalog; other catalogs are unchanged.
C6_Registration == []C6_Inv /\ [][C6_Step]_vars

\* C6 witness: a lookup of "pretty" has returned the hand-registered T1 after
\* module modA had registered PrettyA under the same name.
C6_Witness ==
    /\ last.op = "concrete_extension"
    /\ last.point = "printer"
    /\ last.name = n_pretty
    /\ last.result = "T1"
    /\ "modA" \in sys_modules
    /\ ClassAt(_global_registries, "printer", n_plain) = NoClass

\* Module L registers name n in catalog p, and the class it leaves there.
Registers(L, p, n) ==
    \E i \in 1..Len(ModuleBody[L]) :
        LET c == ClassTable[ModuleBody[L][i]]
        IN ~c.is_base /\ c.extension_type = p /\ c.extension_name = n
RegisteredBy(L, p, n) ==
    ModuleBody[L][CHOOSE i \in 1..Len(ModuleBody[L]) :
        /\ ClassTable[ModuleBody[L][i]].extension_type = p
        /\ ClassTable[ModuleBody[L][i]].extension_name = n
        /\ ~ClassTable[ModuleBody[L][i]].is_base
        /\ \A j \in 1..Len(ModuleBody[L]) :
              (/\ ClassTable[ModuleBody[L][j]].extension_type = p
               /\ ClassTable[ModuleBody[L][j]].extension_name = n
               /\ ~ClassTable[ModuleBody[L][j]].is_base) => j <= i]

\* C7 as stated: once extension(name) has loaded the name's locator and
\* returned T, every extension(name) returns T.
C7_Original ==
    (last.op = "extension" /\ resolved[<<last.point, last.name>>] # NoClass)
        => /\ last.exc = "none"
           /\ last.result = resolved[<<last.point, last.name>>]

C7_Step ==
    /\ last'.op = "extension" =>
          LET p == last'.point
              n == last'.name
              L == ModuleAt(_global_registries, p, n)
          IN /\ ClassAt(_global_registries, p, n) # NoClass =>
                   /\ last'.imported = NoLocator
                   /\ last'.exc = "none"
                   /\ last'.result = ClassAt(_global_registries, p, n)
                   /\ sys_modules' = sys_modules
                   /\ ClassesSame
             /\ (ClassAt(_global_registries, p, n) = NoClass /\ L # NoLocator /\ Registers(L, p, n)) =>
                   /\ last'.imported = L
                   /\ L \notin sys_modules
                   /\ last'.exc = "none"
                   /\ last'.result = RegisteredBy(L, p, n)
                   /\ ClassAt(_global_registries', p, n) = RegisteredBy(L, p, n)
             /\ last'.imported # NoLocator => resolved[<<p, n>>] = NoClass
             /\ ModulesSame
    /\ last'.op = "register_lazy" =>
          /\ last'.imported = NoLocator
          /\ sys_modules' = sys_modules
          /\ ClassesSame
    /\ \A pn \in Slots :
          ClassAt(_global_registries, pn[1], pn[2]) # NoClass
             => ClassAt(_global_registries', pn[1], pn[2]) # NoClass

\* C7 amended: extension(name) imports the name's locator only while the
\* name is absent from classes; if the locator registers the name, that one
\* import puts the name into classes, where it stays, and the class the
\* import registered is returned; a lookup of a name in classes imports
\* nothing and returns the class currently registered; no name is resolved
\* by an import twice; register_lazy imports nothing.
C7_LazyOnce == [][C7_Step]_vars

\* C7 witness: a name that an import resolved has been looked up again,
\* without an import, and its class returned.
C7_Witness ==
    /\ last.op = "extension"
    /\ last.imported = NoLocator
    /\ last.exc = "none"
    /\ resolved[<<last.point, last.name>>] # NoClass
    /\ last.result = resolved[<<last.point, last.name>>]

\* The parts of C8 that do not depend on what a failed lookup leaves behind:
\* the lookup fails, with the internal error naming the extension and the
\* catalog, exactly when the name is absent from classes after the possible
\* import; repeating a failed lookup fails again in the same way.
C8_Fails ==
    /\ (last'.exc = "InternalError") <=> (ClassAt(_global_registries', last'.point, last'.name) = NoClass)
    /\ last'.exc \in {"none", "InternalError"}
    /\ last'.exc = "InternalError" => (last'.msg = <<last'.name, last'.point>> /\ last'.result = NoClass)
    /\ (last.op = "extension" /\ last.exc = "InternalError"
            /\ last.point = last'.point /\ last.name = last'.name)
          => (last'.exc = "InternalError" /\ last'.msg = last.msg)

\* C8 as stated: moreover the failed lookup adds no entry to classes or modules.
C8_Original ==
    [][last'.op = "extension" =>
          /\ C8_Fails
          /\ last'.exc = "InternalError" => (ClassesSame /\ ModulesSame)]_vars

\* C8 amended: the failed lookup adds no entry to modules and no entry for
\* the looked-up name to classes; the only classes entries it adds are those
\* the module it imported registers, and none when it imported nothing.
C8_UnknownExtension ==
    [][last'.op = "extension" =>
          /\ C8_Fails
          /\ last'.exc = "InternalError" =>
                /\ ModulesSame
                /\ ClassAt(_global_registries', last'.point, last'.name) = NoClass
                /\ \A pn \in Slots :
                      ClassAt(_global_registries', pn[1], pn[2]) # ClassAt(_global_registries, pn[1], pn[2])
                         => /\ last'.imported # NoLocator
                            /\ Registers(last'.imported, pn[1], pn[2])
                            /\ ClassAt(_global_registries', pn[1], pn[2])
                                  = RegisteredBy(last'.imported, pn[1], pn[2])]_vars

\* C8 witness: the lookup of "plain", lazily registered with a module that
\* registers only "pretty", has imported the module and failed.
C8_Witness ==
    /\ last.op = "extension"
    /\ last.point = "printer"
    /\ last.name = n_plain
    /\ last.imported = "modA"
    /\ last.exc = "InternalError"
    /\ ClassAt(_global_registries, "printer", n_pretty) = "PrettyA"

IsSorted(seq) == \A i \in 1..(Len(seq) - 1) : StrLess(seq[i], seq[i + 1])

C10_Step ==
    /\ \A pn \in Slots :
          ClassAt(_global_registries, pn[1], pn[2]) # NoClass
             => ClassAt(_global_registries', pn[1], pn[2]) # NoClass
    /\ \A p \in Points : KnownNames(_global_registries, p) \subseteq KnownNames(_global_registries', p)
    /\ last'.op = "registered_names" =>
          /\ {last'.names[i] : i \in 1..Len(last'.names)} = KnownNames(_global_registries', last'.point)
          /\ KnownNames(_global_registries, last'.point) \subseteq {last'.names[i] : i \in 1..Len(last'.names)}
          /\ IsSorted(last'.names)
    /\ (last'.op = "register_lazy" /\ ClassAt(_global_registries, last'.point, last'.name) # NoClass) =>
          /\ ClassesSame
          /\ ModuleAt(_global_registries', last'.point, last'.name) = last'.module
          /\ ModulesSameExcept(last'.point, last'.name)
          /\ sys_modules' = sys_modules
          /\ last'.imported = NoLocator
    /\ (last'.op \in {"extension", "concrete_extension", "describe"}
            /\ ClassAt(_global_registries, last'.point, last'.name) # NoClass) =>
          /\ last'.imported = NoLocator
          /\ last'.exc = "none"
          /\ sys_modules' = sys_modules
          /\ IsLookup(last'.op) => last'.result = ClassAt(_global_registries, last'.point, last'.name)

====
